---- MODULE Spec2Model ----
(***************************************************************************)
(* Model of the COREP own-funds assistant: the reconciliation engine       *)
(* COREPEngine.validate_response (src/corep_engine.py, duplicated in       *)
(* src/main.py as COREPAssistant.validate_response), the engine's          *)
(* construction and process_query, the Streamlit page of src/app.py and    *)
(* COREPAssistant.save_report.                                             *)
(*                                                                         *)
(* JSON values, as json.loads produces them, are tagged records:           *)
(*   [t |-> "null"]                          None                          *)
(*   [t |-> "str",  s |-> <<chars>>]         str, one character per item   *)
(*   [t |-> "int",  n |-> Int]               int                           *)
(*   [t |-> "list", items |-> <<values>>]    list                          *)
(*   [t |-> "obj",  keys |-> <<keys>>, at |-> [key |-> value]]  dict, with *)
(*                                           its insertion order           *)
(***************************************************************************)
EXTENDS Integers, Sequences, FiniteSets, TLC

VARIABLES
    llm_data,   \* the Populated Template handed to validate_response
    result,     \* what the call produced: nothing yet, a Verdict, or a raised exception
    runs,       \* history of finished calls, <<[data, result], ...>> (observer)
    engine,     \* the COREPEngine instance's attributes (rules, schema, validation_rules)
    files,      \* the configuration the constructor reads: API key and the three files
    pc,         \* position of the process_query call in progress
    user_input, \* the query text of the call
    llm_response, \* what call_llm returned
    outcome,    \* what process_query produced: nothing yet, a returned record, a raised exception
    clock,      \* datetime.now(), in whole seconds
    heap,       \* the result records created so far, a record's index being its identity
    results,    \* st.session_state.results: 0 for None, or the index of a record
    query_history, \* st.session_state.query_history
    calls,      \* the validate_response calls of the threads: template, position, result
    frames,     \* the local variables errors and warnings of each call
    disk,       \* the report files of the working directory, by the second in their name
    writer      \* the save_report call: position, file name, report, the disk before it

\* the variables of one process_query call, the engine and its configuration aside
queryVars == <<pc, user_input, llm_response, outcome, clock>>

\* what a direct call of validate_response leaves alone
\* the session state of the Streamlit page, the engine aside
appVars == <<heap, results, query_history>>

\* the concurrent calls of validate_response on the cached engine
threadVars == <<calls, frames>>

\* COREPAssistant.save_report and the files it writes
saveVars == <<disk, writer>>

beyondValidate == <<files, queryVars, appVars, threadVars, saveVars>>

vars == <<llm_data, result, runs, engine, files, queryVars, appVars, threadVars, saveVars>>

---------------------------------------------------------------------------
(* Bounds *)

MaxAmount == 1   \* amounts range over -1 .. MaxAmount in the generated templates
MaxRuns == 3     \* calls of validate_response in one behaviour of SpecRuns
MaxClock == 2    \* seconds the clock may advance in one behaviour
MaxRecords == 2  \* result records created in one behaviour of SpecApp
Threads == 2     \* sessions calling validate_response on the cached engine at once
MaxSaves == 2    \* calls of save_report in one behaviour of SpecSave

---------------------------------------------------------------------------
(* JSON values *)

Null == [t |-> "null"]
Str(s) == [t |-> "str", s |-> s]
Int_(n) == [t |-> "int", n |-> n]
List(items) == [t |-> "list", items |-> items]
Obj(keys, at) == [t |-> "obj", keys |-> keys, at |-> at]
EmptyObj == Obj(<<>>, [k \in {} |-> Null])

\* Python truthiness: bool(value)
Truthy(v) ==
    CASE v.t = "null" -> FALSE
      [] v.t = "str"  -> v.s # <<>>
      [] v.t = "int"  -> v.n # 0
      [] v.t = "list" -> v.items # <<>>
      [] v.t = "obj"  -> v.keys # <<>>

\* dict.get(key, default) on a dict
Get(d, key, default) == IF key \in DOMAIN d.at THEN d.at[key] ELSE default

---------------------------------------------------------------------------
(* Characters, str(), int() and the format specifier "," *)

Digits == {"0", "1", "2", "3", "4", "5", "6", "7", "8", "9"}
DigitChars == <<"0", "1", "2", "3", "4", "5", "6", "7", "8", "9">>
DigitValue(c) == CHOOSE d \in 0..9 : DigitChars[d + 1] = c
Whitespace == {" ", "\n"}

RECURSIVE NatDigits(_)
NatDigits(n) ==
    IF n < 10 THEN <<DigitChars[n + 1]>>
    ELSE NatDigits(n \div 10) \o <<DigitChars[(n % 10) + 1]>>

\* str(n) of an int
IntToStr(n) == IF n < 0 THEN <<"-">> \o NatDigits(0 - n) ELSE NatDigits(n)

RECURSIVE Group(_)
Group(ds) ==
    IF Len(ds) <= 3 THEN ds
    ELSE Group(SubSeq(ds, 1, Len(ds) - 3)) \o <<",">> \o SubSeq(ds, Len(ds) - 2, Len(ds))

\* f"{n:,}"
FormatGrouped(n) == IF n < 0 THEN <<"-">> \o Group(NatDigits(0 - n)) ELSE Group(NatDigits(n))

RECURSIVE JoinItems(_)
RECURSIVE PyRepr(_)
PyRepr(v) ==
    CASE v.t = "null" -> <<"N", "o", "n", "e">>
      [] v.t = "str"  -> <<"'">> \o v.s \o <<"'">>
      [] v.t = "int"  -> IntToStr(v.n)
      [] v.t = "list" -> <<"[">> \o JoinItems(v.items) \o <<"]">>
      [] v.t = "obj"  -> <<"{", "}">>
JoinItems(items) ==
    IF items = <<>> THEN <<>>
    ELSE IF Len(items) = 1 THEN PyRepr(items[1])
    ELSE PyRepr(items[1]) \o <<",", " ">> \o JoinItems(Tail(items))

\* str(value), f"{value}"
PyStr(v) == IF v.t = "str" THEN v.s ELSE PyRepr(v)

RECURSIVE AllDigits(_)
AllDigits(s) == s = <<>> \/ (Head(s) \in Digits /\ AllDigits(Tail(s)))

\* mutant of MatchesIntegerPattern: r'^-?.+$', any text after the sign
MatchesAnyText(s) ==
    LET body == IF s # <<>> /\ s[1] = "-" THEN Tail(s) ELSE s
    IN body # <<>> /\ body # <<"\n">>

\* re.match(r'^-?\d+$', s): $ also matches before one trailing newline
MatchesIntegerPattern(s) ==
    LET body == IF s # <<>> /\ s[Len(s)] = "\n" THEN SubSeq(s, 1, Len(s) - 1) ELSE s
        digits == IF body # <<>> /\ Head(body) = "-" THEN Tail(body) ELSE body
    IN digits # <<>> /\ AllDigits(digits)

RECURSIVE LStrip(_)
LStrip(s) == IF s # <<>> /\ Head(s) \in Whitespace THEN LStrip(Tail(s)) ELSE s
RECURSIVE RStrip(_)
RStrip(s) ==
    IF s # <<>> /\ s[Len(s)] \in Whitespace THEN RStrip(SubSeq(s, 1, Len(s) - 1)) ELSE s

\* the digit part of an int() literal: digits, single underscores between digits
WellFormedDigits(s) ==
    /\ s # <<>>
    /\ s[1] \in Digits
    /\ s[Len(s)] \in Digits
    /\ \A i \in 1..Len(s) : s[i] \in Digits \cup {"_"}
    /\ \A i \in 1..(Len(s) - 1) : ~(s[i] = "_" /\ s[i + 1] = "_")

RECURSIVE DigitsValue(_, _)
DigitsValue(s, acc) ==
    IF s = <<>> THEN acc
    ELSE IF Head(s) = "_" THEN DigitsValue(Tail(s), acc)
    ELSE DigitsValue(Tail(s), acc * 10 + DigitValue(Head(s)))

IntOk(n) == [exc |-> "none", n |-> n]
IntFail(exc) == [exc |-> exc, n |-> 0]

\* int(s) of a str: surrounding whitespace, an optional sign, then the digits
ParseIntLiteral(s) ==
    LET body == RStrip(LStrip(s))
        signed == body # <<>> /\ Head(body) \in {"-", "+"}
        digits == IF signed THEN Tail(body) ELSE body
    IN IF ~WellFormedDigits(digits) THEN IntFail("ValueError")
       ELSE IF signed /\ Head(body) = "-" THEN IntOk(0 - DigitsValue(digits, 0))
       ELSE IntOk(DigitsValue(digits, 0))

\* int(value)
PyInt(v) ==
    CASE v.t = "str" -> ParseIntLiteral(v.s)
      [] v.t = "int" -> IntOk(v.n)
      [] OTHER       -> IntFail("TypeError")

---------------------------------------------------------------------------
(* Verdict entries.  Each message is a record holding the fixed text and    *)
(* the formatted pieces the f-string interpolates.                          *)

MissingRequired(field_code) == [msg |-> "Missing required field", code |-> field_code]
EmptyValue(field_code) == [msg |-> "Empty value for field", code |-> field_code]
NonNumeric(field_code, value) ==
    [msg |-> "Non-numeric value in field", code |-> field_code, value |-> PyStr(value)]
Mismatch(calculated_cet1, reported_cet1) ==
    [msg |-> "CET1 calculation mismatch",
     calculated |-> FormatGrouped(calculated_cet1),
     reported |-> FormatGrouped(reported_cet1)]
Negative(reported_cet1) == [msg |-> "CET1 is negative", reported |-> FormatGrouped(reported_cet1)]
\* str(e) of int()'s ValueError: "invalid literal for int() with base 10: " + repr(value)
CalculationError(value) ==
    [msg |-> "Calculation error", literal |-> PyRepr(value)]

---------------------------------------------------------------------------
(* validate_response *)

\* mutant of required_fields: the optional component is required too
required_fields_with_040 == <<"010", "020", "030", "040", "100">>

required_fields == <<"010", "020", "030", "100">>
component_codes == <<"010", "020", "030", "040">>
deduction_codes == <<"070">>
calculated_code == "100"

CodeChars(code) ==
    CASE code = "010" -> <<"0", "1", "0">>
      [] code = "020" -> <<"0", "2", "0">>
      [] code = "030" -> <<"0", "3", "0">>
      [] code = "040" -> <<"0", "4", "0">>
      [] code = "070" -> <<"0", "7", "0">>
      [] code = "100" -> <<"1", "0", "0">>
      [] code = "999" -> <<"9", "9", "9">>

IsSubstring(needle, s) ==
    \E i \in 0..(Len(s) - Len(needle)) : SubSeq(s, i + 1, i + Len(needle)) = needle

\* `field_code in container`: "yes", "no", or the exception it raises
Contains(container, field_code) ==
    CASE container.t = "obj"  ->
            IF field_code \in DOMAIN container.at THEN "yes" ELSE "no"
      [] container.t = "list" ->
            IF \E i \in 1..Len(container.items) : container.items[i] = Str(CodeChars(field_code))
            THEN "yes" ELSE "no"
      [] container.t = "str"  ->
            IF IsSubstring(CodeChars(field_code), container.s) THEN "yes" ELSE "no"
      [] OTHER -> "TypeError"

\* mutant of InitialErrors: the list of the previous call is reused
ErrorsOfPreviousCall ==
    IF runs # <<>> /\ runs[Len(runs)].result.kind = "Verdict"
    THEN runs[Len(runs)].result.errors ELSE <<>>

\* the accumulators of one call, and the exception (if any) that ended it
InitialErrors == <<>>
InitialWarnings == <<>>
Raise(acc, exc) == [acc EXCEPT !.exc = exc]
AddError(acc, e) == [acc EXCEPT !.errors = Append(@, e)]
AddWarning(acc, w) == [acc EXCEPT !.warnings = Append(@, w)]

\* llm_data.get("data", {})
DataOf(template) == Get(template, "data", EmptyObj)

\* mutant of CheckRequiredField: an empty value is reported like a missing field
CheckRequiredFieldEmptyIsMissing(acc, template, field_code) ==
    LET data == DataOf(template)
        has == Contains(data, field_code)
    IN IF has = "TypeError" THEN Raise(acc, "TypeError")
       ELSE IF has = "no" THEN AddError(acc, MissingRequired(field_code))
       ELSE IF data.t # "obj" THEN Raise(acc, "TypeError")
       ELSE IF data.at[field_code].t # "obj" THEN Raise(acc, "AttributeError")
       ELSE IF ~Truthy(Get(data.at[field_code], "value", Null))
            THEN AddError(acc, MissingRequired(field_code))
       ELSE acc

\* body of the required-fields loop for one field_code
CheckRequiredField(acc, template, field_code) ==
    LET data == DataOf(template)
        has == Contains(data, field_code)
    IN IF has = "TypeError" THEN Raise(acc, "TypeError")
       ELSE IF has = "no" THEN AddError(acc, MissingRequired(field_code))
       ELSE IF data.t # "obj" THEN Raise(acc, "TypeError")
       ELSE IF data.at[field_code].t # "obj" THEN Raise(acc, "AttributeError")
       ELSE IF ~Truthy(Get(data.at[field_code], "value", Null))
            THEN AddWarning(acc, EmptyValue(field_code))
       ELSE acc

RECURSIVE CheckRequiredFields(_, _, _)
CheckRequiredFields(acc, template, codes) ==
    IF acc.exc # "none" \/ codes = <<>> THEN acc
    ELSE CheckRequiredFields(CheckRequiredField(acc, template, Head(codes)), template, Tail(codes))

\* mutant of CheckDataType: an entry that is not a mapping is skipped
CheckDataTypeSkippingNonMappings(acc, field_code, field_data) ==
    IF field_data.t # "obj" THEN acc
    ELSE LET value == Get(field_data, "value", Str(<<>>))
         IN IF Truthy(value) /\ ~MatchesIntegerPattern(PyStr(value))
            THEN AddWarning(acc, NonNumeric(field_code, value))
            ELSE acc

\* body of the data-types loop for one (field_code, field_data) item
CheckDataType(acc, field_code, field_data) ==
    IF field_data.t # "obj" THEN Raise(acc, "AttributeError")
    ELSE LET value == Get(field_data, "value", Str(<<>>))
         IN IF Truthy(value) /\ ~MatchesIntegerPattern(PyStr(value))
            THEN AddWarning(acc, NonNumeric(field_code, value))
            ELSE acc

RECURSIVE CheckDataTypeItems(_, _, _)
CheckDataTypeItems(acc, data, keys) ==
    IF acc.exc # "none" \/ keys = <<>> THEN acc
    ELSE CheckDataTypeItems(CheckDataType(acc, Head(keys), data.at[Head(keys)]), data, Tail(keys))

CheckDataTypes(acc, template) ==
    IF acc.exc # "none" THEN acc
    ELSE IF DataOf(template).t # "obj" THEN Raise(acc, "AttributeError")
    ELSE CheckDataTypeItems(acc, DataOf(template), DataOf(template).keys)

\* one iteration of a summing loop; sum is [total, exc, bad]
AddCode(sum, data, code) ==
    IF code \notin DOMAIN data.at THEN sum
    ELSE IF data.at[code].t # "obj" THEN [sum EXCEPT !.exc = "AttributeError"]
    ELSE LET val_str == Get(data.at[code], "value", Str(<<"0">>))
         IN IF ~Truthy(val_str) THEN sum
            ELSE IF PyInt(val_str).exc # "none"
                 THEN [sum EXCEPT !.exc = PyInt(val_str).exc, !.bad = val_str]
            ELSE [sum EXCEPT !.total = @ + PyInt(val_str).n]

RECURSIVE SumCodes(_, _, _)
SumCodes(sum, data, codes) ==
    IF sum.exc # "none" \/ codes = <<>> THEN sum
    ELSE SumCodes(AddCode(sum, data, Head(codes)), data, Tail(codes))

StartSum == [total |-> 0, exc |-> "none", bad |-> Null]

\* reported_cet1 = int(reported_cet1_str) if reported_cet1_str else 0
Reported(data) ==
    LET field == Get(data, calculated_code, EmptyObj)
    IN IF field.t # "obj" THEN [StartSum EXCEPT !.exc = "AttributeError"]
       ELSE LET reported_cet1_str == Get(field, "value", Str(<<"0">>))
            IN IF ~Truthy(reported_cet1_str) THEN StartSum
               ELSE IF PyInt(reported_cet1_str).exc # "none"
                    THEN [StartSum EXCEPT !.exc = PyInt(reported_cet1_str).exc,
                                          !.bad = reported_cet1_str]
               ELSE [StartSum EXCEPT !.total = PyInt(reported_cet1_str).n]

\* mutant of Differs: a difference of one unit is tolerated
DiffersBeyondTolerance(calculated_cet1, reported_cet1) ==
    calculated_cet1 - reported_cet1 > 1 \/ reported_cet1 - calculated_cet1 > 1

\* if calculated_cet1 != reported_cet1
Differs(calculated_cet1, reported_cet1) == calculated_cet1 # reported_cet1

\* mutant of IsNegative: zero is rejected as well
IsNotPositive(reported_cet1) == reported_cet1 <= 0

\* if reported_cet1 < 0
IsNegative(reported_cet1) == reported_cet1 < 0

\* mutant of CalculationErrors: the negativity check comes first
CalculationErrorsNegativeFirst(calculated_cet1, reported_cet1) ==
    (IF IsNegative(reported_cet1) THEN <<Negative(reported_cet1)>> ELSE <<>>)
    \o (IF Differs(calculated_cet1, reported_cet1)
        THEN <<Mismatch(calculated_cet1, reported_cet1)>> ELSE <<>>)

\* lines 199-204: the mismatch check, then the negativity check
CalculationErrors(calculated_cet1, reported_cet1) ==
    (IF Differs(calculated_cet1, reported_cet1)
     THEN <<Mismatch(calculated_cet1, reported_cet1)>> ELSE <<>>)
    \o (IF IsNegative(reported_cet1) THEN <<Negative(reported_cet1)>> ELSE <<>>)

\* the body of the try block, as [exc, bad, errors]: the errors it appends
\* when it runs to its end, or the exception that leaves it
Calculation(data) ==
    LET components == SumCodes(StartSum, data, component_codes)
        deductions == SumCodes(StartSum, data, deduction_codes)
        reported == Reported(data)
        calculated_cet1 == components.total - deductions.total
        reported_cet1 == reported.total
        first == IF components.exc # "none" THEN components
                 ELSE IF deductions.exc # "none" THEN deductions
                 ELSE reported
    IN IF first.exc # "none" THEN [exc |-> first.exc, bad |-> first.bad, errors |-> <<>>]
       ELSE [exc |-> "none", bad |-> Null,
             errors |-> CalculationErrors(calculated_cet1, reported_cet1)]

\* try: ... except ValueError as e: warnings.append(f"Calculation error: {e}")
\* mutant of AfterCalculation: the except branch starts the warnings afresh
AfterCalculationDroppingWarnings(acc, calc) ==
    IF calc.exc = "ValueError" THEN [acc EXCEPT !.warnings = <<CalculationError(calc.bad)>>]
    ELSE IF calc.exc # "none" THEN Raise(acc, calc.exc)
    ELSE [acc EXCEPT !.errors = @ \o calc.errors]

\* except ValueError: the warning; another exception leaves the call; else
\* the errors of the try block
AfterCalculation(acc, calc) ==
    IF calc.exc = "ValueError" THEN AddWarning(acc, CalculationError(calc.bad))
    ELSE IF calc.exc # "none" THEN Raise(acc, calc.exc)
    ELSE [acc EXCEPT !.errors = @ \o calc.errors]

ValidateCalculation(acc, template) ==
    IF acc.exc # "none" THEN acc ELSE AfterCalculation(acc, Calculation(DataOf(template)))

IsValid(errors) == Len(errors) = 0

\* mutant of Verdict: a warning also fails the report
VerdictCountingWarnings(errors, warnings) ==
    [kind |-> "Verdict", errors |-> errors, warnings |-> warnings,
     is_valid |-> Len(errors) = 0 /\ Len(warnings) = 0]

Verdict(errors, warnings) ==
    [kind |-> "Verdict", errors |-> errors, warnings |-> warnings, is_valid |-> IsValid(errors)]
Raised(exc) == [kind |-> "Raised", exc |-> exc]
NoResult == [kind |-> "None"]

\* errors = [], warnings = []
StartOfCall == [errors |-> InitialErrors, warnings |-> InitialWarnings, exc |-> "none"]

\* the return statement, or the exception that left the call
ReturnOf(acc) ==
    IF acc.exc # "none" THEN Raised(acc.exc) ELSE Verdict(acc.errors, acc.warnings)

validate_response(template) ==
    IF template.t # "obj" THEN Raised("AttributeError")
    ELSE ReturnOf(ValidateCalculation(
                      CheckDataTypes(
                          CheckRequiredFields(StartOfCall, template, required_fields),
                          template),
                      template))

---------------------------------------------------------------------------
(* The Populated Templates the model draws from *)

Absent == [t |-> "absent"]   \* marks a key that the mapping does not hold

TemplateCodes == <<"010", "020", "030", "040", "070", "100">>
AllCodes == TemplateCodes \o <<"999">>   \* "999": a code outside the template
CodeSet(codes) == {codes[i] : i \in 1..Len(codes)}

\* {"value": value}
Field(value) == Obj(<<"value">>, [k \in {"value"} |-> value])
\* a field mapping without a "value" key: {"description": ""}
FieldNoValue == Obj(<<"description">>, [k \in {"description"} |-> Str(<<>>)])

\* the data mapping holding, in the order of codes, the fields f does not leave Absent
MakeData(f, codes) ==
    Obj(SelectSeq(codes, LAMBDA c : f[c] # Absent),
        [c \in {k \in DOMAIN f : f[k] # Absent} |-> f[c]])

\* {"data": data}
Template(data) == Obj(<<"data">>, [k \in {"data"} |-> data])

RECURSIVE Reverse(_)
Reverse(s) == IF s = <<>> THEN <<>> ELSE Reverse(Tail(s)) \o <<Head(s)>>

Amounts == {-1} \cup (0..MaxAmount)
abc == <<"a", "b", "c">>

CoreOptions ==
    {Absent, Field(Str(<<>>)), Field(Str(abc))} \cup {Field(Str(IntToStr(n))) : n \in Amounts}

PlainOptions == {Absent, Field(Str(<<"1">>)), Field(Str(abc))}

OddOptions ==
    {FieldNoValue, Field(Null),
     Field(Str(<<" ", "1">>)), Field(Str(<<"1", "\n">>)), Field(Str(<<"-">>)),
     Field(Int_(1)), Field(Int_(0)), Field(List(<<Int_(1)>>)), Field(List(<<>>)),
     Str(<<"1">>), Null}

\* every template field over the core options
CoreTemplate(t) ==
    \E f \in [CodeSet(TemplateCodes) -> CoreOptions] : t = Template(MakeData(f, TemplateCodes))

\* one field, possibly outside the template, holds an unusual entry
OddTemplate(t) ==
    \E c \in CodeSet(AllCodes), o \in OddOptions \cup PlainOptions,
       g \in [CodeSet(TemplateCodes) -> PlainOptions] :
        t = Template(MakeData([k \in CodeSet(AllCodes) |->
                                  IF k = c THEN o ELSE IF k = "999" THEN Absent ELSE g[k]],
                              AllCodes))

\* the same fields in the opposite insertion order
ReversedTemplate(t) ==
    \E f \in [CodeSet(TemplateCodes) -> {Absent, Field(Str(<<>>)), Field(Str(abc))}] :
        t = Template(MakeData(f, Reverse(TemplateCodes)))

Amount(n) == Field(Str(IntToStr(n)))
Scenario(a010, a020, a030, a040, a070, a100) ==
    Template(MakeData([c \in CodeSet(TemplateCodes) |->
        CASE c = "010" -> Amount(a010) [] c = "020" -> Amount(a020)
          [] c = "030" -> Amount(a030) [] c = "040" -> Amount(a040)
          [] c = "070" -> Amount(a070) [] c = "100" -> Amount(a100)], TemplateCodes))

\* the example of the prompt, the mismatch scenario, reconciling negative totals
ScenarioTemplates ==
    {Scenario(150000000, 75000000, 300000000, 25000000, 45000000, 505000000),
     Scenario(150000000, 75000000, 300000000, 25000000, 45000000, 999),
     Scenario(-10, 0, 0, 0, 0, -10),
     Scenario(1000, 0, 0, 0, 2000, -1000)}

\* not a mapping at the top, no "data" key, or a "data" entry that is not a mapping
ShapelessTemplates ==
    {Null, List(<<>>), List(<<Int_(1)>>), Str(abc), Int_(5), EmptyObj}
    \cup {Template(d) : d \in {Null, Int_(5), List(<<>>), List(<<Str(CodeChars("010"))>>),
                               Str(abc), Str(CodeChars("010")), EmptyObj}}

\* two required fields absent, one empty, a negative total that does not
\* reconcile, and text in a field outside the template
MixedTemplates ==
    {Template(MakeData([k \in CodeSet(AllCodes) |->
        CASE k = "030" -> Field(Str(<<>>))
          [] k = "040" -> Amount(1)
          [] k = "100" -> Amount(-1)
          [] k = "999" -> Field(Str(abc))
          [] OTHER -> Absent], AllCodes))}

IsTemplate(t) ==
    \/ CoreTemplate(t)
    \/ OddTemplate(t)
    \/ ReversedTemplate(t)
    \/ t \in ScenarioTemplates
    \/ t \in ShapelessTemplates
    \/ t \in MixedTemplates

\* the templates of the behaviours with several calls
SmallTemplates ==
    {Template(MakeData(f, TemplateCodes)) :
        f \in {h \in [CodeSet(TemplateCodes) -> {Absent, Field(Str(<<"1">>)), Field(Str(abc))}] :
                 /\ h["020"] = Field(Str(<<"1">>)) /\ h["030"] = Absent
                 /\ h["040"] = Absent /\ h["070"] = Absent}}
    \cup {Null, Template(Null)}

---------------------------------------------------------------------------
(* The engine and the calls *)

\* COREPEngine.__init__: load_file returns "" and load_json_file {} for a missing file
LoadedEngine == [rules |-> "text", schema |-> "loaded", validation_rules |-> "loaded"]
Engines == [rules : {"text", ""}, schema : {"loaded", "{}"}, validation_rules : {"loaded", "{}"}]

\* the files as the repository ships them, and no process_query call under way
AllFilesPresent ==
    [api_key |-> "set", rules |-> "present", schema |-> "present", validation_rules |-> "present"]
NoOutcome == [kind |-> "none"]
NoWriter == [pc |-> "none"]
NoQuery ==
    /\ files = AllFilesPresent
    /\ pc = "idle"
    /\ user_input = <<>>
    /\ llm_response = Null
    /\ outcome = NoOutcome
    /\ clock = 0
    /\ heap = <<>>
    /\ results = 0
    /\ query_history = <<>>
    /\ calls = <<>>
    /\ frames = <<>>
    /\ disk = <<>>
    /\ writer = NoWriter

Init ==
    /\ IsTemplate(llm_data)
    /\ result = NoResult
    /\ runs = <<>>
    /\ engine = LoadedEngine
    /\ NoQuery

InitRuns ==
    /\ llm_data \in SmallTemplates
    /\ result = NoResult
    /\ runs = <<>>
    /\ engine \in Engines
    /\ NoQuery

\* one call validate_response(llm_data), from entry to return or raise
ValidateResponse ==
    /\ result = NoResult
    /\ result' = validate_response(llm_data)
    /\ runs' = Append(runs, [data |-> llm_data, result |-> result'])
    /\ UNCHANGED <<llm_data, engine, beyondValidate>>

\* the caller hands the engine the next Populated Template
NewRequest ==
    /\ result # NoResult
    /\ Len(runs) < MaxRuns
    /\ llm_data' \in SmallTemplates
    /\ result' = NoResult
    /\ UNCHANGED <<runs, engine, beyondValidate>>

Next == ValidateResponse

NextRuns == ValidateResponse \/ NewRequest

Spec == Init /\ [][Next]_vars

SpecRuns == InitRuns /\ [][NextRuns]_vars

---------------------------------------------------------------------------
(* Construction of the engine: COREPEngine.__init__ and its loaders *)

\* the engine before __init__ ran, and after __init__ raised
NotConstructed == [state |-> "not constructed"]
FailedEngine(exc) == [state |-> "failed", exc |-> exc]
Ready(e) == "schema" \in DOMAIN e

\* load_file: the text of the file, "" when the file is missing
load_file(file) == IF file = "present" THEN "text" ELSE ""

\* load_json_file: json.load of the file; {} when the file is missing; a file
\* that is no JSON raises json.JSONDecodeError, which is not caught; a JSON
\* document of another shape is loaded as it is
load_json_file(file) ==
    CASE file = "present" -> "loaded"
      [] file = "missing" -> "{}"
      [] file = "sections without CET1_Capital" -> "sections without CET1_Capital"
      [] file = "malformed" -> "JSONDecodeError"

IsException(x) == x = "JSONDecodeError"

\* __init__: the API key, then rules.txt, schema_c0100.json, validation_rules.json
COREPEngine(f) ==
    IF f.api_key # "set" THEN FailedEngine("ValueError")
    ELSE IF IsException(load_json_file(f.schema))
         THEN FailedEngine(load_json_file(f.schema))
    ELSE IF IsException(load_json_file(f.validation_rules))
         THEN FailedEngine(load_json_file(f.validation_rules))
    ELSE [rules |-> load_file(f.rules),
          schema |-> load_json_file(f.schema),
          validation_rules |-> load_json_file(f.validation_rules)]

\* what the working directory and the environment may hold
FileStates ==
    [api_key : {"set", "unset"},
     rules : {"present", "missing"},
     schema : {"present", "missing", "malformed", "sections without CET1_Capital"},
     validation_rules : {"present", "missing", "malformed"}]

---------------------------------------------------------------------------
(* The reply of the LLM and parse_llm_response *)

\* The text of a reply is a sequence of segments: a JSON document, prose
\* without braces, or text in braces that is no JSON.
Json(v) == [k |-> "json", v |-> v]
Prose == [k |-> "prose"]
Braced == [k |-> "braced"]
Text(segs) == [t |-> "text", segs |-> segs]

\* the reply of the API: an exception of the client, no content, or a text
ClientError == [t |-> "exception"]

\* call_llm: message.content, None when the client raised
call_llm(reply) == IF reply = ClientError THEN Null ELSE reply

\* bool(llm_response): None and "" are falsy
ResponseTruthy(r) == r.t = "text" /\ r.segs # <<>>

\* the items of a JSON list that are objects
ObjectItems(v) == SelectSeq(v.items, LAMBDA item : item.t = "obj")

\* whether the text of a segment holds a "{" and a "}"
HasBraces(seg) ==
    \/ seg.k = "braced"
    \/ seg.k = "json" /\ seg.v.t = "obj"
    \/ seg.k = "json" /\ seg.v.t = "list" /\ ObjectItems(seg.v) # <<>>

\* json.loads of the text from the first "{" to the last "}" of one segment:
\* an object is itself; a list holding one object gives that object when it is
\* the only item between the braces; anything else is no JSON document
LoadsBraces(seg) ==
    IF seg.k = "json" /\ seg.v.t = "obj" THEN seg.v
    ELSE IF seg.k = "json" /\ seg.v.t = "list" /\ Len(ObjectItems(seg.v)) = 1
         THEN ObjectItems(seg.v)[1]
    ELSE Null

\* re.search(r'\{.*\}', text, re.DOTALL), json.loads of the match, else
\* json.loads of the whole text; None on json.JSONDecodeError
parse_llm_response(response_text) ==
    LET segs == response_text.segs
        braces == {i \in 1..Len(segs) : HasBraces(segs[i])}
    IN IF braces = {}
       THEN IF Len(segs) = 1 /\ segs[1].k = "json" THEN segs[1].v ELSE Null
       ELSE IF Cardinality(braces) = 1
            THEN LoadsBraces(segs[CHOOSE i \in braces : TRUE])
            ELSE Null

---------------------------------------------------------------------------
(* process_query *)

\* generate_prompt: the schema's CET1 section when the schema has a
\* 'sections' key, '{}' otherwise; self.schema['sections']['CET1_Capital']
\* raises KeyError when that section is missing
generate_prompt(e) ==
    IF e.schema = "sections without CET1_Capital" THEN "KeyError" ELSE "prompt"

\* what a call produces
Returned(record) == [kind |-> "returned", record |-> record]
RaisedOutcome(exc) == [kind |-> "raised", exc |-> exc]

\* {"error": message}
ErrorRecord(message) == [error |-> message]

\* mutant of SuccessRecord: the Verdict is left out of the record
SuccessRecordWithoutVerdict(template, verdict, now, query) ==
    [success |-> TRUE, template_data |-> template, timestamp |-> now, user_query |-> query]

\* {"success": True, "template_data": ..., "validation": ..., "timestamp": ..., "user_query": ...}
SuccessRecord(template, verdict, now, query) ==
    [success |-> TRUE, template_data |-> template,
     validation |-> [errors |-> verdict.errors, warnings |-> verdict.warnings,
                     is_valid |-> verdict.is_valid],
     timestamp |-> now, user_query |-> query]

\* if not llm_response
CallFailed(response) == ~ResponseTruthy(response)

\* mutant of ParseFailed: only None counts as a failed parse
ParseFailedOnNone(data) == data = Null

\* if not llm_data
ParseFailed(data) == ~Truthy(data)

\* lines 53-65: validate_response, then the record; an exception of
\* validate_response leaves process_query
Assemble(validation_results, data, now, query) ==
    IF validation_results.kind = "Raised" THEN RaisedOutcome(validation_results.exc)
    ELSE Returned(SuccessRecord(data, validation_results, now, query))

\* lines 49-65, once the reply is there
ParseAndValidate(data, now, query) ==
    IF ParseFailed(data) THEN Returned(ErrorRecord("Failed to parse response"))
    ELSE Assemble(validate_response(data), data, now, query)

\* the whole call, for a reply of the LLM and a reading of the clock
process_query(e, query, reply, now) ==
    IF generate_prompt(e) = "KeyError" THEN RaisedOutcome("KeyError")
    ELSE IF CallFailed(call_llm(reply)) THEN Returned(ErrorRecord("LLM call failed"))
    ELSE ParseAndValidate(parse_llm_response(call_llm(reply)), now, query)

\* query texts: short, of 80 characters, of 81 characters
Chars(n) == [i \in 1..n |-> "a"]
Queries == {Chars(1), Chars(80), Chars(81)}

\* the templates a reply may carry
ReplyTemplates ==
    SmallTemplates \cup {EmptyObj, Template(EmptyObj),
                         Obj(<<"template">>, [k \in {"template"} |-> Str(abc)])}

\* replies of the LLM
LLMReplies ==
    {ClientError, Null, Text(<<>>), Text(<<Prose>>), Text(<<Braced>>)}
    \cup {Text(<<Json(t)>>) : t \in ReplyTemplates}
    \cup {Text(<<Prose, Json(t), Prose>>) : t \in ReplyTemplates}
    \cup {Text(<<Json(v)>>) : v \in {List(<<>>), List(<<Int_(1)>>), Int_(0), Int_(5),
                                     Str(<<>>), Str(abc)}}
    \cup {Text(<<Json(List(<<t>>))>>) : t \in ReplyTemplates \ {Null}}
    \cup {Text(<<Json(t), Json(t)>>) : t \in ReplyTemplates \ {Null}}
    \cup {Text(<<Json(List(<<t, t>>))>>) : t \in ReplyTemplates \ {Null}}

\* the engine is constructed from what the working directory holds
Construct ==
    /\ engine = NotConstructed
    /\ engine' = COREPEngine(files)
    /\ UNCHANGED <<llm_data, result, runs, files, queryVars, appVars, threadVars, saveVars>>

\* process_query(user_input) is called on the constructed engine
StartQuery ==
    /\ Ready(engine)
    /\ pc \in {"idle", "done"}
    /\ \E q \in Queries : user_input' = q
    /\ pc' = "generate_prompt"
    /\ llm_response' = Null
    /\ llm_data' = Null
    /\ result' = NoResult
    /\ outcome' = NoOutcome
    /\ UNCHANGED <<runs, engine, files, clock, appVars, threadVars, saveVars>>

\* line 40
GeneratePrompt ==
    /\ pc = "generate_prompt"
    /\ IF generate_prompt(engine) = "KeyError"
       THEN outcome' = RaisedOutcome("KeyError") /\ pc' = "done"
       ELSE outcome' = outcome /\ pc' = "call_llm"
    /\ UNCHANGED <<llm_data, result, runs, engine, files, user_input, llm_response, clock, appVars, threadVars, saveVars>>

\* lines 43-46
CallLLM ==
    /\ pc = "call_llm"
    /\ \E reply \in LLMReplies : llm_response' = call_llm(reply)
    /\ IF CallFailed(llm_response')
       THEN outcome' = Returned(ErrorRecord("LLM call failed")) /\ pc' = "done"
       ELSE outcome' = outcome /\ pc' = "parse_llm_response"
    /\ UNCHANGED <<llm_data, result, runs, engine, files, user_input, clock, appVars, threadVars, saveVars>>

\* lines 49-51
ParseLLMResponse ==
    /\ pc = "parse_llm_response"
    /\ llm_data' = parse_llm_response(llm_response)
    /\ IF ParseFailed(llm_data')
       THEN outcome' = Returned(ErrorRecord("Failed to parse response")) /\ pc' = "done"
       ELSE outcome' = outcome /\ pc' = "validate_response"
    /\ UNCHANGED <<result, runs, engine, files, user_input, llm_response, clock, appVars, threadVars, saveVars>>

\* lines 53-65
ValidateInQuery ==
    /\ pc = "validate_response"
    /\ result' = validate_response(llm_data)
    /\ outcome' = Assemble(result', llm_data, clock, user_input)
    /\ pc' = "done"
    /\ UNCHANGED <<llm_data, runs, engine, files, user_input, llm_response, clock, appVars, threadVars, saveVars>>

\* a second passes
Tick ==
    /\ clock < MaxClock
    /\ clock' = clock + 1
    /\ UNCHANGED <<llm_data, result, runs, engine, files, pc, user_input, llm_response, outcome, appVars, threadVars, saveVars>>

InitQuery ==
    /\ llm_data = Null
    /\ result = NoResult
    /\ runs = <<>>
    /\ engine = NotConstructed
    /\ files \in FileStates
    /\ pc = "idle"
    /\ user_input = <<>>
    /\ llm_response = Null
    /\ outcome = NoOutcome
    /\ clock = 0
    /\ heap = <<>>
    /\ results = 0
    /\ query_history = <<>>
    /\ calls = <<>>
    /\ frames = <<>>
    /\ disk = <<>>
    /\ writer = NoWriter

NextQuery ==
    \/ Construct
    \/ StartQuery
    \/ GeneratePrompt
    \/ CallLLM
    \/ ParseLLMResponse
    \/ ValidateInQuery
    \/ Tick

SpecQuery == InitQuery /\ [][NextQuery]_vars

---------------------------------------------------------------------------
(* The Streamlit page: process_report and the buttons of src/app.py *)

\* init_engine: COREPEngine(), None when the constructor raised; the
\* session keeps what it got
init_engine(f) == COREPEngine(f)

\* mutant of StoreResult: the record the session holds is updated in place
StoreResultInPlace(h, current, record) ==
    IF current = 0 THEN [heap |-> Append(h, record), results |-> Len(h) + 1]
    ELSE [heap |-> [h EXCEPT ![current] = record], results |-> current]

\* st.session_state.results = result: the session is bound to the new record
StoreResult(h, current, record) == [heap |-> Append(h, record), results |-> Len(h) + 1]

\* user_input[:80] + "..." if len(user_input) > 80 else user_input
HistoryQuery(q) == IF Len(q) > 80 THEN SubSeq(q, 1, 80) \o <<".", ".", ".">> ELSE q

\* mutant of HistoryEntry: every entry gets the check mark
HistoryEntryAlwaysValid(now, q, record) ==
    [timestamp |-> now, query |-> HistoryQuery(q), status |-> "valid"]

\* the entry appended to query_history
HistoryEntry(now, q, record) ==
    [timestamp |-> now, query |-> HistoryQuery(q),
     status |-> IF record.validation.is_valid THEN "valid" ELSE "warning"]

\* str.strip() of the text area
Strip(q) == SelectSeq(q, LAMBDA ch : ch \notin Whitespace)

\* what the user may type, a blank text included
AppQueries == {Chars(1), Chars(81), <<" ">>}

\* replies of the LLM in a session
AppReplies ==
    {ClientError, Text(<<Prose>>), Text(<<Json(List(<<Int_(1)>>))>>)}
    \cup {Text(<<Prose, Json(t), Prose>>) :
             t \in {Scenario(1, 0, 0, 0, 0, 1), Scenario(1, 0, 0, 0, 0, 0)}}

\* the locals of the process_query call inside process_report
QueryLocals(q, reply) ==
    /\ user_input' = q
    /\ pc' = "done"
    /\ llm_response' = IF generate_prompt(engine') = "KeyError" THEN Null ELSE call_llm(reply)
    /\ llm_data' = IF CallFailed(llm_response') THEN Null ELSE parse_llm_response(llm_response')
    /\ result' = IF ParseFailed(llm_data') THEN NoResult ELSE validate_response(llm_data')

\* the "Generate Report" button: process_report(user_input) for a text that
\* is not blank, from the engine's initialisation to the history entry
GenerateReport ==
    /\ Len(heap) < MaxRecords
    /\ \E q \in AppQueries, reply \in AppReplies :
         IF Strip(q) = <<>> THEN UNCHANGED vars
         ELSE /\ engine' = IF engine = NotConstructed THEN init_engine(files) ELSE engine
              /\ IF ~Ready(engine')
                 THEN UNCHANGED <<llm_data, result, queryVars, appVars>>
                 ELSE /\ QueryLocals(q, reply)
                      /\ outcome' = process_query(engine', q, reply, clock)
                      /\ IF outcome'.kind = "raised" \/ "error" \in DOMAIN outcome'.record
                         THEN UNCHANGED <<appVars>>
                         ELSE /\ heap' = StoreResult(heap, results, outcome'.record).heap
                              /\ results' = StoreResult(heap, results, outcome'.record).results
                              /\ query_history' =
                                     Append(query_history, HistoryEntry(clock, q, outcome'.record))
                      /\ UNCHANGED clock
              /\ UNCHANGED <<runs, files, threadVars, saveVars>>

\* the "New Report" button, shown with the results
NewReport ==
    /\ results # 0
    /\ results' = 0
    /\ UNCHANGED <<llm_data, result, runs, engine, files, queryVars, heap, query_history, threadVars, saveVars>>

\* the "Clear History" button, shown with a history that is not empty
ClearHistory ==
    /\ query_history # <<>>
    /\ query_history' = <<>>
    /\ UNCHANGED <<llm_data, result, runs, engine, files, queryVars, heap, results, threadVars, saveVars>>

InitApp ==
    /\ llm_data = Null
    /\ result = NoResult
    /\ runs = <<>>
    /\ engine = NotConstructed
    /\ files \in {AllFilesPresent, [AllFilesPresent EXCEPT !.api_key = "unset"],
                  [AllFilesPresent EXCEPT !.schema = "missing"]}
    /\ pc = "idle"
    /\ user_input = <<>>
    /\ llm_response = Null
    /\ outcome = NoOutcome
    /\ clock = 0
    /\ heap = <<>>
    /\ results = 0
    /\ query_history = <<>>
    /\ calls = <<>>
    /\ frames = <<>>
    /\ disk = <<>>
    /\ writer = NoWriter

NextApp ==
    \/ GenerateReport
    \/ NewReport
    \/ ClearHistory
    \/ Tick

SpecApp == InitApp /\ [][NextApp]_vars

---------------------------------------------------------------------------
(* validate_response called from several threads on the one cached engine *)

\* mutant of Frame: errors and warnings are kept on the shared engine
SharedFrame(p) == 1

\* the frame of call p: errors = [] and warnings = [] bind fresh lists to names
\* local to the call
Frame(p) == p

\* the templates the sessions validate
ThreadTemplates ==
    {Template(MakeData(f, TemplateCodes)) :
        f \in {h \in [CodeSet(TemplateCodes) -> {Absent, Field(Str(<<"1">>)), Field(Str(abc))}] :
                 /\ h["010"] # Absent /\ h["020"] = Field(Str(<<"1">>)) /\ h["030"] = Absent
                 /\ h["040"] = Absent /\ h["070"] = Absent /\ h["100"] # Field(Str(abc))}}
    \cup {Null, Template(Null)}

\* what the calls of the threads leave alone
beyondThreads == <<llm_data, result, runs, engine, files, queryVars, appVars, saveVars>>

\* some other call is between its entry and its return
OthersRunning(p) ==
    \E o \in DOMAIN calls \ {p} : calls[o].pc \notin {"ready", "returned"}

Step(p, to) ==
    [calls EXCEPT ![p].pc = to, ![p].overlapped = @ \/ OthersRunning(p)]

\* an exception leaves the call at once, the statements after it do not run
After(acc, to) == IF acc.exc # "none" THEN "return" ELSE to

\* lines 156-157
Enter(p) ==
    /\ calls[p].pc = "ready"
    /\ frames' = [frames EXCEPT ![Frame(p)] = StartOfCall]
    /\ calls' = Step(p, "required_fields")
    /\ UNCHANGED beyondThreads

\* lines 160-165
RunRequiredFields(p) ==
    /\ calls[p].pc = "required_fields"
    /\ frames' = [frames EXCEPT ![Frame(p)] =
                     IF calls[p].template.t # "obj" THEN Raise(@, "AttributeError")
                     ELSE CheckRequiredFields(@, calls[p].template, required_fields)]
    /\ calls' = Step(p, After(frames'[Frame(p)], "data_types"))
    /\ UNCHANGED beyondThreads

\* lines 168-171
RunDataTypes(p) ==
    /\ calls[p].pc = "data_types"
    /\ frames' = [frames EXCEPT ![Frame(p)] = CheckDataTypes(@, calls[p].template)]
    /\ calls' = Step(p, After(frames'[Frame(p)], "calculation"))
    /\ UNCHANGED beyondThreads

\* lines 174-207
RunCalculation(p) ==
    /\ calls[p].pc = "calculation"
    /\ frames' = [frames EXCEPT ![Frame(p)] = ValidateCalculation(@, calls[p].template)]
    /\ calls' = Step(p, "return")
    /\ UNCHANGED beyondThreads

\* lines 209-213
Return(p) ==
    /\ calls[p].pc = "return"
    /\ calls' = [Step(p, "returned") EXCEPT ![p].result = ReturnOf(frames[Frame(p)])]
    /\ UNCHANGED <<frames, beyondThreads>>

InitThreads ==
    /\ llm_data = Null
    /\ result = NoResult
    /\ runs = <<>>
    /\ engine = LoadedEngine
    /\ files = AllFilesPresent
    /\ pc = "idle"
    /\ user_input = <<>>
    /\ llm_response = Null
    /\ outcome = NoOutcome
    /\ clock = 0
    /\ heap = <<>>
    /\ results = 0
    /\ query_history = <<>>
    /\ calls \in [1..Threads -> [template : ThreadTemplates, pc : {"ready"},
                                 overlapped : {FALSE}, result : {NoResult}]]
    /\ frames = [p \in 1..Threads |-> StartOfCall]
    /\ disk = <<>>
    /\ writer = NoWriter

NextThreads ==
    \E p \in 1..Threads :
        \/ Enter(p)
        \/ RunRequiredFields(p)
        \/ RunDataTypes(p)
        \/ RunCalculation(p)
        \/ Return(p)

SpecThreads == InitThreads /\ [][NextThreads]_vars

---------------------------------------------------------------------------
(* COREPAssistant.save_report (src/main.py) *)

\* the report dict of lines 300-314
Report(data, validation_results, now) ==
    [metadata |-> [generated_at |-> now,
                   template |-> Get(data, "template", Str(<<"C", " ", "0", "1", ".", "0", "0">>)),
                   assistant_version |-> "1.0"],
     report_data |-> data,
     validation_results |-> [errors |-> validation_results.errors,
                             warnings |-> validation_results.warnings,
                             is_valid |-> validation_results.is_valid],
     summary |-> [fields_populated |-> Len(Get(data, "data", EmptyObj).keys),
                  has_errors |-> Len(validation_results.errors) > 0,
                  has_warnings |-> Len(validation_results.warnings) > 0]]

\* json.dump(report, f, indent=2): the text reaches the file piece by piece,
\* here one piece per top-level key
Serialize(report) ==
    <<[key |-> "metadata", value |-> report.metadata],
      [key |-> "report_data", value |-> report.report_data],
      [key |-> "validation_results", value |-> report.validation_results],
      [key |-> "summary", value |-> report.summary]>>

\* a file of the directory: none, or the pieces written to it so far
NoFile == [exists |-> FALSE]
File(pieces) == [exists |-> TRUE, pieces |-> pieces]
EmptyDisk == [n \in 0..MaxClock |-> NoFile]

\* f"corep_report_{timestamp}.json", timestamp to the second
FileName(now) == now

\* the templates run() saves: they parsed to a mapping and were validated
SavedTemplates ==
    {Scenario(1, 0, 0, 0, 0, 1), Scenario(1, 0, 0, 0, 0, 0),
     Obj(<<"template">>, [k \in {"template"} |-> Str(abc)])}

\* lines 297-316: the name, the report, and open(filename, 'w'), which
\* creates the file or empties the one that is there
SaveOpen ==
    /\ writer.pc \in {"idle", "completed", "failed"}
    /\ writer.saves < MaxSaves
    /\ \E data \in SavedTemplates :
         writer' = [pc |-> "writing", filename |-> FileName(clock),
                    pieces |-> Serialize(Report(data, validate_response(data), clock)),
                    before |-> disk, saves |-> writer.saves + 1]
    /\ disk' = [disk EXCEPT ![FileName(clock)] = File(<<>>)]
    /\ UNCHANGED <<llm_data, result, runs, engine, files, queryVars, appVars, threadVars>>

\* json.dump writes the next piece
SaveWrite ==
    /\ writer.pc = "writing"
    /\ Len(disk[writer.filename].pieces) < Len(writer.pieces)
    /\ disk' = [disk EXCEPT ![writer.filename] =
                   File(Append(@.pieces, writer.pieces[Len(@.pieces) + 1]))]
    /\ UNCHANGED <<llm_data, result, runs, engine, files, queryVars, appVars, threadVars, writer>>

\* the with block ends: the file is closed and its name returned
SaveClose ==
    /\ writer.pc = "writing"
    /\ Len(disk[writer.filename].pieces) = Len(writer.pieces)
    /\ writer' = [writer EXCEPT !.pc = "completed"]
    /\ UNCHANGED <<llm_data, result, runs, engine, files, queryVars, appVars, threadVars, disk>>

\* a write raises OSError (the disk is full, the device fails): the with
\* block closes the file and the exception leaves save_report
SaveFails ==
    /\ writer.pc = "writing"
    /\ Len(disk[writer.filename].pieces) < Len(writer.pieces)
    /\ writer' = [writer EXCEPT !.pc = "failed"]
    /\ UNCHANGED <<llm_data, result, runs, engine, files, queryVars, appVars, threadVars, disk>>

InitSave ==
    /\ llm_data = Null
    /\ result = NoResult
    /\ runs = <<>>
    /\ engine = LoadedEngine
    /\ files = AllFilesPresent
    /\ pc = "idle"
    /\ user_input = <<>>
    /\ llm_response = Null
    /\ outcome = NoOutcome
    /\ clock = 0
    /\ heap = <<>>
    /\ results = 0
    /\ query_history = <<>>
    /\ calls = <<>>
    /\ frames = <<>>
    /\ disk = EmptyDisk
    /\ writer = [pc |-> "idle", saves |-> 0]

NextSave ==
    \/ SaveOpen
    \/ SaveWrite
    \/ SaveClose
    \/ SaveFails
    \/ Tick

SpecSave == InitSave /\ [][NextSave]_vars

---------------------------------------------------------------------------
(* Vocabulary of the properties: what the Populated Template holds, read    *)
(* off the template itself                                                  *)

Done == result.kind # "None"
IsVerdict == result.kind = "Verdict"

IsMapping(v) == v.t = "obj"
HasData(t) == IsMapping(t) /\ "data" \in DOMAIN t.at
\* the field codes of the data mapping
FieldCodes(t) ==
    IF HasData(t) /\ IsMapping(t.at["data"]) THEN DOMAIN t.at["data"].at ELSE {}
Present(t, code) == code \in FieldCodes(t)
Entry(t, code) == t.at["data"].at[code]

\* a mapping of field code to field mapping
ShapeCorrect(t) ==
    /\ IsMapping(t)
    /\ HasData(t) => IsMapping(t.at["data"])
    /\ \A code \in FieldCodes(t) : IsMapping(Entry(t, code))

\* the Populated Template is absent or not a mapping, its data entry is not a
\* mapping, or a field entry is not a mapping
Malformed(t) == ~ShapeCorrect(t)

\* the raw value of a present field mapping; Absent without a "value" key
RawValue(t, code) ==
    IF "value" \in DOMAIN Entry(t, code).at THEN Entry(t, code).at["value"] ELSE Absent

\* an optional minus sign followed by one or more digits
IsIntegerString(s) ==
    LET d == IF s # <<>> /\ s[1] = "-" THEN Tail(s) ELSE s
    IN d # <<>> /\ \A i \in 1..Len(d) : d[i] \in Digits

RECURSIVE NaturalOf(_)
NaturalOf(d) ==
    IF d = <<>> THEN 0
    ELSE 10 * NaturalOf(SubSeq(d, 1, Len(d) - 1)) + DigitValue(d[Len(d)])
IntegerOf(s) == IF s[1] = "-" THEN 0 - NaturalOf(Tail(s)) ELSE NaturalOf(s)

\* the integer a grouped rendering such as "-505,000,000" stands for
Ungrouped(s) == IntegerOf(SelectSeq(s, LAMBDA ch : ch # ","))

\* "absent", "empty" ("" or null or no value), "integer", "text" (a string
\* without any digit, such as "abc"), or "other"
FieldState(t, code) ==
    IF ~Present(t, code) THEN "absent"
    ELSE IF ~IsMapping(Entry(t, code)) THEN "other"
    ELSE LET v == RawValue(t, code)
         IN IF v = Absent \/ v = Null \/ v = Str(<<>>) THEN "empty"
            ELSE IF v.t # "str" THEN "other"
            ELSE IF IsIntegerString(v.s) THEN "integer"
            ELSE IF \A i \in 1..Len(v.s) : v.s[i] \notin Digits THEN "text"
            ELSE "other"

\* the amount of a field, an absent, empty or unparsable one counting as 0
AmountOf(t, code) ==
    IF FieldState(t, code) = "integer" THEN IntegerOf(RawValue(t, code).s) ELSE 0

ArithmeticCodes == {"010", "020", "030", "040", "070", "100"}
RequiredCodes == {"010", "020", "030", "100"}

\* sum(010, 020, 030, 040) - sum(070)
SignedSum(t) ==
    AmountOf(t, "010") + AmountOf(t, "020") + AmountOf(t, "030") + AmountOf(t, "040")
        - AmountOf(t, "070")

CountOf(seq, e) == Cardinality({i \in 1..Len(seq) : seq[i] = e})
CountMsg(seq, m) == Cardinality({i \in 1..Len(seq) : seq[i].msg = m})
Entries(seq, m) == {seq[i] : i \in {j \in 1..Len(seq) : seq[j].msg = m}}

---------------------------------------------------------------------------
(* C1..C10 *)

\* C1: in every Verdict validate_response returns, is_valid is true exactly
\* when the errors list is empty, whatever the warnings are.
C1_IsValidIffNoErrors ==
    IsVerdict => (result.is_valid <=> result.errors = <<>>)

\* C1 witness: a valid Verdict that carries warnings.
C1_Witness ==
    IsVerdict /\ result.is_valid /\ result.errors = <<>> /\ Len(result.warnings) >= 2

\* every component and deduction field holds an integer string and field 100
\* holds their signed sum
Reconciles(t) ==
    /\ ShapeCorrect(t)
    /\ \A code \in ArithmeticCodes : FieldState(t, code) = "integer"
    /\ AmountOf(t, "100") = SignedSum(t)

\* C2 as stated: every template whose component and deduction fields hold
\* integer strings (negative amounts included) and whose field 100 equals their
\* signed sum gets is_valid = true and no errors.
C2_ReconcilingTemplateIsValid ==
    (Done /\ Reconciles(llm_data)) =>
        (IsVerdict /\ result.is_valid /\ result.errors = <<>>)

\* C2 amended: such a template gets is_valid = true and no errors provided
\* its signed sum, and so field 100, is not negative.
C2_ReconcilingNonNegativeIsValid ==
    (Done /\ Reconciles(llm_data) /\ SignedSum(llm_data) >= 0) =>
        (IsVerdict /\ result.is_valid /\ result.errors = <<>>)

\* C2 witness: a reconciling template with a negative component and a
\* non-negative total has been validated.
C2_Witness ==
    /\ Done /\ Reconciles(llm_data)
    /\ AmountOf(llm_data, "010") < 0 /\ SignedSum(llm_data) >= 0 /\ AmountOf(llm_data, "020") > 0
    /\ result.is_valid

\* every arithmetic field is absent, empty, an integer string or digit-free text
PlainArithmetic(t) ==
    /\ ShapeCorrect(t)
    /\ \A code \in ArithmeticCodes : FieldState(t, code) \in {"absent", "empty", "integer", "text"}

\* C3: an arithmetic field holding text that is no integer counts as 0 in
\* pass 3: the comparison of calculated and reported is still made with that
\* field as 0, is_valid follows from it and the other passes, and the field is
\* named in a "Non-numeric value" warning.
C3_NonNumericCountsAsZero ==
    (IsVerdict /\ PlainArithmetic(llm_data)
       /\ \E code \in ArithmeticCodes : FieldState(llm_data, code) = "text") =>
        /\ \A code \in ArithmeticCodes :
              FieldState(llm_data, code) = "text" =>
                  CountOf(result.warnings, NonNumeric(code, RawValue(llm_data, code))) = 1
        /\ CountMsg(result.errors, "CET1 calculation mismatch")
              = (IF SignedSum(llm_data) # AmountOf(llm_data, "100") THEN 1 ELSE 0)
        /\ result.is_valid <=>
              /\ \A code \in RequiredCodes : Present(llm_data, code)
              /\ SignedSum(llm_data) = AmountOf(llm_data, "100")
              /\ AmountOf(llm_data, "100") >= 0

\* C4: whenever field 100 holds a negative integer, the Verdict's errors
\* contain "CET1 is negative: <reported>", whatever the other fields hold.
C4_NegativeTotalReported ==
    (IsVerdict /\ FieldState(llm_data, "100") = "integer" /\ AmountOf(llm_data, "100") < 0) =>
        \E e \in Entries(result.errors, "CET1 is negative") :
            Ungrouped(e.reported) = AmountOf(llm_data, "100")

\* C5: the Verdict's errors hold exactly one "Missing required field: <code>"
\* for each of 010, 020, 030, 100 that the data mapping lacks, and none for a
\* present code or for an absent 040, 070 or other code.
C5_OneMissingErrorPerAbsentRequired ==
    IsVerdict =>
        /\ \A code \in CodeSet(AllCodes) :
              CountOf(result.errors, [msg |-> "Missing required field", code |-> code])
                = (IF code \in RequiredCodes /\ ~Present(llm_data, code) THEN 1 ELSE 0)
        /\ CountMsg(result.errors, "Missing required field")
              = Cardinality({code \in RequiredCodes : ~Present(llm_data, code)})

\* C5 witness: a Verdict for a template that lacks the required 020 and 100 and
\* the optional 040 and 070 but holds 010.
C5_Witness ==
    /\ IsVerdict
    /\ Present(llm_data, "010") /\ ~Present(llm_data, "020") /\ ~Present(llm_data, "100")
    /\ ~Present(llm_data, "040") /\ ~Present(llm_data, "070")
    /\ CountMsg(result.errors, "Missing required field") = 2

\* every arithmetic field is absent, empty or an integer string
IntegerArithmetic(t) ==
    /\ ShapeCorrect(t)
    /\ \A code \in ArithmeticCodes : FieldState(t, code) \in {"absent", "empty", "integer"}

\* C6: when every arithmetic field is absent, empty or an integer string, the
\* errors hold a "CET1 calculation mismatch" entry exactly when
\* sum(010,020,030,040) - sum(070) differs from field 100 (absent and empty
\* counting as 0), by exact integer comparison; the entry reports both
\* integers and the Verdict is then not valid.
C6_MismatchIffSumsDiffer ==
    (Done /\ IntegerArithmetic(llm_data)) =>
        /\ IsVerdict
        /\ CountMsg(result.errors, "CET1 calculation mismatch")
              = (IF SignedSum(llm_data) # AmountOf(llm_data, "100") THEN 1 ELSE 0)
        /\ \A e \in Entries(result.errors, "CET1 calculation mismatch") :
              /\ Ungrouped(e.calculated) = SignedSum(llm_data)
              /\ Ungrouped(e.reported) = AmountOf(llm_data, "100")
              /\ ~result.is_valid

\* C6 witness: the mismatch scenario, reported as
\* "Calculated 505,000,000 vs Reported 999".
C6_Witness ==
    /\ IsVerdict
    /\ SignedSum(llm_data) = 505000000 /\ AmountOf(llm_data, "100") = 999
    /\ result.errors =
         <<[msg |-> "CET1 calculation mismatch",
            calculated |-> <<"5", "0", "5", ",", "0", "0", "0", ",", "0", "0", "0">>,
            reported |-> <<"9", "9", "9">>]>>
    /\ ~result.is_valid

C8_ShapeCorrectYieldsVerdict ==
    (Done /\ ShapeCorrect(llm_data)) => IsVerdict

EmptyRequired(t, code) ==
    Present(t, code) /\ IsMapping(Entry(t, code)) /\ RawValue(t, code) \in {Null, Str(<<>>)}

\* C10: an absent required field yields the "Missing required field" error
\* and no "Empty value" warning for its code; the same field present with an
\* empty value ("" or null) yields the "Empty value" warning and no "Missing
\* required field" error for its code.
C10_AbsentIsErrorEmptyIsWarning ==
    IsVerdict =>
        \A code \in RequiredCodes :
            /\ ~Present(llm_data, code) =>
                  /\ CountOf(result.errors, [msg |-> "Missing required field", code |-> code]) = 1
                  /\ CountOf(result.warnings, [msg |-> "Empty value for field", code |-> code]) = 0
            /\ EmptyRequired(llm_data, code) =>
                  /\ CountOf(result.warnings, [msg |-> "Empty value for field", code |-> code]) = 1
                  /\ CountOf(result.errors, [msg |-> "Missing required field", code |-> code]) = 0

\* C10 witness: a Verdict for a template that lacks 010 and holds 020 with ""
\* and nothing else wrong, so that it is valid only but for the absent field.
C10_Witness ==
    /\ IsVerdict
    /\ ~Present(llm_data, "010") /\ EmptyRequired(llm_data, "020")
    /\ result.errors = <<[msg |-> "Missing required field", code |-> "010"]>>
    /\ result.warnings = <<[msg |-> "Empty value for field", code |-> "020"]>>

---------------------------------------------------------------------------
(* C11..C20 *)

\* what a returned record holds, read off the record
RecordKeys(r) == DOMAIN r
IsFailureRecord(r) ==
    /\ RecordKeys(r) = {"error"}
    /\ r.error \in {"LLM call failed", "Failed to parse response"}
IsSuccessRecord(r) ==
    /\ RecordKeys(r) = {"success", "template_data", "validation", "timestamp", "user_query"}
    /\ r.success = TRUE
    /\ RecordKeys(r.validation) = {"errors", "warnings", "is_valid"}

QueryDone == pc = "done"
ValidationRan == result # NoResult
\* the LLM answered with a text, and the text parsed to a non-empty value
CallSucceeded == llm_response # Null /\ llm_response.segs # <<>>
ParseSucceeded == CallSucceeded /\ llm_data # Null /\ Truthy(llm_data)

\* validate_response runs after, and only after, a successful call and parse
ValidationFollowsParse ==
    /\ ValidationRan => (QueryDone /\ ParseSucceeded)
    /\ (QueryDone /\ ParseSucceeded) => ValidationRan

\* the record of a failed call or parse: only an "error", validation not run
FailureShape ==
    /\ outcome.kind = "returned"
    /\ IsFailureRecord(outcome.record)
    /\ ~ValidationRan
    /\ ~ParseSucceeded

\* the record of a validated reply: the template, its whole Verdict, the
\* timestamp and the query
SuccessShape ==
    /\ outcome.kind = "returned"
    /\ IsSuccessRecord(outcome.record)
    /\ result.kind = "Verdict"
    /\ outcome.record.template_data = llm_data
    /\ outcome.record.validation.errors = result.errors
    /\ outcome.record.validation.warnings = result.warnings
    /\ outcome.record.validation.is_valid = result.is_valid
    /\ outcome.record.user_query = user_input
    /\ outcome.record.timestamp \in 0..MaxClock

\* no record: validate_response raised on the parsed reply, or generate_prompt
\* raised before the LLM was called
RaisedShape ==
    /\ outcome.kind = "raised"
    /\ \/ result.kind = "Raised" /\ outcome.exc = result.exc /\ ParseSucceeded
       \/ ~ValidationRan /\ ~CallSucceeded /\ outcome.exc = "KeyError"

\* C11 as stated: every outcome of process_query is a failure record carrying
\* only "error" (the call failed or the reply did not parse, validation not
\* run) or a success record carrying the template, the complete Verdict, the
\* timestamp and the query; validation runs after, and only after, a
\* successful call and parse.
C11_OutcomeIsFailureOrSuccessRecord ==
    /\ QueryDone => (FailureShape \/ SuccessShape)
    /\ ValidationFollowsParse

\* C11 amended: every outcome of process_query is such a failure record, such
\* a success record, or an exception that leaves process_query without any
\* record (raised by validate_response on the parsed reply, or by
\* generate_prompt before the LLM is called); validation runs after, and only
\* after, a successful call and parse.
C11_OutcomeIsRecordOrException ==
    /\ QueryDone => (FailureShape \/ SuccessShape \/ RaisedShape)
    /\ ~QueryDone => outcome = NoOutcome
    /\ ValidationFollowsParse

\* C11 witness: a reply that parsed to a non-empty value made
\* validate_response raise, and process_query ended without a record.
C11_Witness ==
    QueryDone /\ ParseSucceeded /\ result.kind = "Raised" /\ outcome.kind = "raised"

\* C12: a Result Record is never mutated: no step changes a record that
\* exists, and a step that creates one binds the session to the new record,
\* whose template is the parsed reply as validate_response received it, and
\* appends one history entry, the earlier records and entries staying as
\* they were.
C12_RecordsAreNeverMutated ==
    [][/\ Len(heap') >= Len(heap)
       /\ \A i \in 1..Len(heap) : heap'[i] = heap[i]
       /\ Len(heap') > Len(heap) =>
             /\ Len(heap') = Len(heap) + 1
             /\ results' = Len(heap')
             /\ heap'[results'].template_data = parse_llm_response(llm_response')
             /\ heap'[results'].validation.is_valid = result'.is_valid
             /\ Len(query_history') = Len(query_history) + 1
             /\ \A i \in 1..Len(query_history) : query_history'[i] = query_history[i]]_vars

\* C12 witness: a second report replaced a first, different one in the
\* session, both records and both history entries being there.
C12_Witness ==
    /\ Len(heap) = 2 /\ results = 2 /\ heap[1] # heap[2]
    /\ Len(query_history) = 2 /\ query_history[1] # query_history[2]

\* schema_c0100.json or validation_rules.json is missing or malformed
ConfigurationProblem ==
    files.schema # "present" \/ files.validation_rules # "present"

\* C13: with a missing or malformed schema_c0100.json or validation_rules.json
\* the engine never reaches its ready state, so no request is processed and
\* no request fails because of the configuration.
C13_ConfigurationProblemIsFatalAtConstruction ==
    ConfigurationProblem => (~Ready(engine) /\ pc = "idle" /\ outcome = NoOutcome)

\* C14: however the calls of validate_response on the shared engine
\* interleave, each call returns what validate_response gives its template
\* when it runs alone.
C14_InterleavedCallsAgreeWithSoloCalls ==
    \A p \in DOMAIN calls :
        calls[p].pc = "returned" => calls[p].result = validate_response(calls[p].template)

\* C14 witness: two calls on different templates ran interleaved, and one
\* returned a Verdict with an error and a warning while the other was under way.
C14_Witness ==
    \E p, o \in DOMAIN calls :
        /\ calls[p].pc = "returned" /\ calls[p].overlapped
        /\ calls[p].result.kind = "Verdict"
        /\ calls[p].result.errors # <<>> /\ calls[p].result.warnings # <<>>
        /\ calls[o].template # calls[p].template
        /\ calls[o].pc \in {"data_types", "calculation"}

SaveOver == writer.pc \in {"completed", "failed"}

\* C15: after save_report, whether it completed or failed part-way through
\* writing, the directory holds either the complete serialized report under
\* its name or exactly what it held before the call.
C15_SaveReportIsAllOrNothing ==
    SaveOver =>
        \/ disk = writer.before
        \/ disk = [writer.before EXCEPT ![writer.filename] = File(writer.pieces)]

\* a string without its one trailing newline, if it has one
WithoutNewline(s) ==
    IF s # <<>> /\ s[Len(s)] = "\n" THEN SubSeq(s, 1, Len(s) - 1) ELSE s

\* the field holds a non-empty string that is no integer string, one
\* trailing newline aside
NotIntegerText(t, code) ==
    /\ Present(t, code) /\ IsMapping(Entry(t, code))
    /\ RawValue(t, code) # Absent /\ RawValue(t, code).t = "str"
    /\ RawValue(t, code).s # <<>>
    /\ ~IsIntegerString(WithoutNewline(RawValue(t, code).s))

HasMsg(seq, m) == CountMsg(seq, m) > 0
NamedIn(seq, m, code) == \E e \in Entries(seq, m) : e.code = code

\* C16: whatever passes 3 and 4 do (reconcile, report a mismatch or a
\* negative total, or give up on an unparseable value), the Verdict holds the
\* "Missing required field" error of every absent required field, the "Empty
\* value" warning of every empty required field and the "Non-numeric value"
\* warning of every field whose text is no integer.
C16_EarlierFindingsAreKept ==
    IsVerdict =>
        /\ \A code \in RequiredCodes :
              /\ ~Present(llm_data, code) =>
                    NamedIn(result.errors, "Missing required field", code)
              /\ EmptyRequired(llm_data, code) =>
                    NamedIn(result.warnings, "Empty value for field", code)
        /\ \A code \in FieldCodes(llm_data) :
              NotIntegerText(llm_data, code) =>
                  NamedIn(result.warnings, "Non-numeric value in field", code)

\* C16 witness: pass 3 gave up on an unparseable value in a Verdict that
\* holds an error of pass 1, a warning of pass 1 and a warning of pass 2.
C16_Witness ==
    /\ IsVerdict
    /\ HasMsg(result.warnings, "Calculation error")
    /\ \E a, b, c \in RequiredCodes :
          /\ ~Present(llm_data, a) /\ NamedIn(result.errors, "Missing required field", a)
          /\ EmptyRequired(llm_data, b) /\ NamedIn(result.warnings, "Empty value for field", b)
          /\ NotIntegerText(llm_data, c)
          /\ NamedIn(result.warnings, "Non-numeric value in field", c)

\* the place of an error in pass order: the required fields in the order
\* 010, 020, 030, 100, then the mismatch, then the negative total
ErrorRank(e) ==
    CASE e.msg = "Missing required field" ->
            (CHOOSE i \in 1..4 : <<"010", "020", "030", "100">>[i] = e.code)
      [] e.msg = "CET1 calculation mismatch" -> 5
      [] e.msg = "CET1 is negative" -> 6

\* C17: in every Verdict the errors stand in pass order, the "Missing
\* required field" entries in the order 010, 020, 030, 100, then the "CET1
\* calculation mismatch", then the "CET1 is negative", the last two at most
\* once each; in the warnings no "Non-numeric value" entry stands before an
\* "Empty value" entry.
C17_EntriesStandInPassOrder ==
    IsVerdict =>
        /\ \A i, j \in 1..Len(result.errors) :
              i < j => ErrorRank(result.errors[i]) < ErrorRank(result.errors[j])
        /\ CountMsg(result.errors, "CET1 calculation mismatch") <= 1
        /\ CountMsg(result.errors, "CET1 is negative") <= 1
        /\ \A i, j \in 1..Len(result.warnings) :
              (/\ result.warnings[i].msg = "Non-numeric value in field"
               /\ result.warnings[j].msg = "Empty value for field") => j < i

\* C17 witness: a Verdict with two "Missing required field" errors, the
\* mismatch and the negative total, and with an "Empty value" and a
\* "Non-numeric value" warning.
C17_Witness ==
    /\ IsVerdict
    /\ CountMsg(result.errors, "Missing required field") >= 2
    /\ HasMsg(result.errors, "CET1 calculation mismatch")
    /\ HasMsg(result.errors, "CET1 is negative")
    /\ HasMsg(result.warnings, "Empty value for field")
    /\ HasMsg(result.warnings, "Non-numeric value in field")

\* the value of a field mapping is non-empty and is not an optional minus
\* sign followed by one or more digits (a number counts by its decimal text)
NotWellFormed(t, code) ==
    /\ RawValue(t, code) # Absent
    /\ \/ /\ RawValue(t, code).t = "str"
          /\ RawValue(t, code).s # <<>>
          /\ ~IsIntegerString(RawValue(t, code).s)
       \/ /\ RawValue(t, code).t = "list"
          /\ RawValue(t, code).items # <<>>

\* C18: the warnings hold exactly one "Non-numeric value in field <code>:
\* <raw value>" for every field of the data mapping, required, optional or
\* outside the template, whose value is non-empty and no optional minus sign
\* followed by digits, and none for a field whose value is empty or a
\* well-formed integer; such warnings alone leave is_valid true.
C18_OneWarningPerIllFormedValue ==
    IsVerdict =>
        /\ \A code \in FieldCodes(llm_data) :
              Cardinality({i \in 1..Len(result.warnings) :
                              /\ result.warnings[i].msg = "Non-numeric value in field"
                              /\ result.warnings[i].code = code})
                = (IF NotWellFormed(llm_data, code) THEN 1 ELSE 0)
        /\ \A w \in Entries(result.warnings, "Non-numeric value in field") :
              /\ w.code \in FieldCodes(llm_data)
              /\ RawValue(llm_data, w.code).t = "str" => w.value = RawValue(llm_data, w.code).s
        /\ result.errors = <<>> => result.is_valid

\* what int() makes of the value of an arithmetic field that it can parse:
\* 0 for an absent or empty one, the number itself, or the integer a string
\* spells once the whitespace around it is dropped
Reading(t, code) ==
    IF ~Present(t, code) \/ RawValue(t, code) = Absent THEN 0
    ELSE IF RawValue(t, code).t = "int" THEN RawValue(t, code).n
    ELSE IF RawValue(t, code).t = "str" /\ IsIntegerString(Strip(RawValue(t, code).s))
         THEN IntegerOf(Strip(RawValue(t, code).s))
    ELSE 0

ReadSum(t) ==
    Reading(t, "010") + Reading(t, "020") + Reading(t, "030") + Reading(t, "040")
        - Reading(t, "070")

\* C19: a Verdict whose warnings hold a "Calculation error" holds neither the
\* mismatch nor the negative-total error, and its warnings name at least one
\* of 010, 020, 030, 040, 070, 100 in a "Non-numeric value" entry; a Verdict
\* without a "Calculation error" has had both checks made: it holds the
\* mismatch error exactly when the sum read from the fields differs from
\* field 100 and the negative-total error exactly when field 100 is negative.
C19_CalculationErrorExcludesArithmeticErrors ==
    IsVerdict =>
        /\ HasMsg(result.warnings, "Calculation error") =>
              /\ ~HasMsg(result.errors, "CET1 calculation mismatch")
              /\ ~HasMsg(result.errors, "CET1 is negative")
              /\ \E code \in ArithmeticCodes :
                    NamedIn(result.warnings, "Non-numeric value in field", code)
        /\ ~HasMsg(result.warnings, "Calculation error") =>
              /\ HasMsg(result.errors, "CET1 calculation mismatch")
                    <=> ReadSum(llm_data) # Reading(llm_data, "100")
              /\ HasMsg(result.errors, "CET1 is negative") <=> Reading(llm_data, "100") < 0

\* C19 witness: a Verdict with a "Calculation error" for a template whose
\* field 100 holds a negative integer that the other fields do not add up to.
C19_Witness ==
    /\ IsVerdict
    /\ HasMsg(result.warnings, "Calculation error")
    /\ FieldState(llm_data, "100") = "integer" /\ AmountOf(llm_data, "100") < 0
    /\ result.errors = <<>>

\* the values Python takes for false: None, {}, [], "", 0
EmptyValues == {Null, EmptyObj, List(<<>>), Str(<<>>), Int_(0)}

\* C20: when the reply of the LLM parses to a falsy value, the empty mapping
\* {} included, process_query returns {"error": "Failed to parse response"};
\* no success record has an empty template_data, and no record carries both
\* "error" and "success".
C20_EmptyParseIsAFailure ==
    /\ (QueryDone /\ CallSucceeded /\ llm_data \in EmptyValues) =>
          outcome = Returned([error |-> "Failed to parse response"])
    /\ outcome.kind = "returned" =>
          /\ ~({"error", "success"} \subseteq RecordKeys(outcome.record))
          /\ "success" \in RecordKeys(outcome.record) =>
                outcome.record.template_data \notin EmptyValues

\* C20 witness: the LLM answered "{}" and process_query returned the parse
\* failure.
C20_Witness ==
    /\ QueryDone /\ llm_response = Text(<<Json(EmptyObj)>>) /\ llm_data = EmptyObj
    /\ outcome = Returned([error |-> "Failed to parse response"])
    /\ ~ValidationRan

---------------------------------------------------------------------------
(* C21 *)

\* the step created a result record: a process_report run ended in a success
\* record
RunSucceeded == Len(heap') = Len(heap) + 1
\* the steps of the two buttons, read off the session state
ResultsCleared == results # 0 /\ results' = 0
HistoryCleared == query_history # <<>> /\ query_history' = <<>>

\* C21: over every sequence of Generate Report, New Report and Clear
\* History, query_history grows by exactly one entry in a process_report run
\* that ends in a success record, the entry's status being the check mark
\* exactly when the Verdict of that run is valid; every other run (engine not
\* initialised, error record, exception) leaves results and query_history as
\* they were; New Report clears results and leaves the history, Clear History
\* empties the history and leaves results.
C21_HistoryFollowsSuccessfulRuns ==
    [][/\ RunSucceeded =>
             /\ Len(query_history') = Len(query_history) + 1
             /\ SubSeq(query_history', 1, Len(query_history)) = query_history
             /\ query_history'[Len(query_history')].status = "valid"
                    <=> heap'[Len(heap')].validation.is_valid
             /\ result'.kind = "Verdict"
             /\ heap'[Len(heap')].validation.is_valid = result'.is_valid
             /\ results' = Len(heap')
       /\ ResultsCleared => (~RunSucceeded /\ query_history' = query_history)
       /\ HistoryCleared => (~RunSucceeded /\ results' = results)
       /\ (~RunSucceeded /\ ~ResultsCleared /\ ~HistoryCleared) =>
             (results' = results /\ query_history' = query_history)]_vars

\* C21 witness: after a report whose Verdict is not valid was stored with a
\* warning entry, a run that failed left results and the history in place.
C21_Witness ==
    /\ Len(heap) = 1 /\ results = 1 /\ Len(query_history) = 1
    /\ ~heap[1].validation.is_valid /\ query_history[1].status = "warning"
    /\ outcome.kind = "raised"

====
